---- MODULE Spec2Model ----
(***************************************************************************)
(* Model of the change-propagation pipeline of the MySQL sync service:     *)
(* the sync Manager (manager.go), the binlog listener and its canal        *)
(* goroutine, the buffered event channel, the worker pool with its         *)
(* batching workers, the destination transaction and the state store.      *)
(*                                                                         *)
(* An event is identified by its index in the source binlog; its table is  *)
(* binlog[i] and its stamped position is PosOf(i).                         *)
(***************************************************************************)
EXTENDS FiniteSets, Integers, Naturals, Sequences, TLC

\* ---------------------------------------------------------------- bounds
MaxEvents == 2      \* length of the source binlog explored
NumWorkers == 2     \* cfg.Sync.Workers
BatchSize == 2      \* cfg.Sync.BatchInsertSize
QueueCap == 1       \* capacity of eventChan (10000 in the program)
MaxRuns == 2        \* successful Manager.Start calls explored
EventsPerFile == 1  \* row events stamped with one binlog file before a rotate
MaxNameLen == 2     \* length of the database and schema names explored

Tables == {"t1", "t2"}
WorkerIds == 1..NumWorkers
NoState == [file |-> 0, pos |-> 0, rows |-> 0, valid |-> FALSE]

VARIABLES
    status,      \* Manager.status
    mu,          \* Manager.mu: "free", or held by Stop: "cancel" before
                 \* p.cancel(), "stop" in wg.Wait
    lastStart,   \* result of the last Manager.Start call
    run,         \* number of listener/pool pairs built so far
    listeners,   \* runs whose BinlogListener was started and not stopped
    pools,       \* runs whose WorkerPool was started and has not finished Stop
    binlog,      \* the source log: binlog[i] is the table of row event i
    canal,       \* state of the canal goroutine of m.binlogListener
    cursor,      \* next binlog index the canal will deliver to OnRow (1 when
                 \* no canal is streaming)
    inflight,    \* event held by OnRow at its select, 0 when there is none
    stale,       \* an OnRow of a stopped listener still sits at its select
    queue,       \* l.eventChan contents
    closed,      \* l.eventChan has been closed
    lctx,        \* l.ctx is cancelled
    pctx,        \* p.ctx is cancelled
    wpc,         \* per worker: "none", "select", "flush", "update", "exited"
    batch,       \* per worker: w.batch
    todo,        \* per worker: tables of eventsByTable not yet visited
    cur,         \* per worker: table whose transaction just committed, or "-"
    after,       \* per worker: what follows processBatch, "loop" or "exit"
    committed,   \* events committed at the destination, in commit order
    rolledBack,  \* events whose destination transaction failed
    emitted,     \* events the listener has put in a queue
    store,       \* sync_state rows of the state store, by table
    panicked,    \* the process died of a send on (or close of) a closed channel
    conflicts,   \* rows of the conflicts table of the state store
    history,     \* rows of the sync_history table of the state store
    enabled,     \* Scheduler.cfg.Enabled and the cron job is scheduled
    tpc,         \* the cron job's triggerSync: "wait" for the next tick, or
                 \* "start" between GetStatus and Manager.Start
    lastTrigger, \* what the last triggerSync logged
    storeFailures, \* UpdateSyncState errors in a row, for the specification
                 \* that watches them
    pin,         \* input of the function a specification applies on its own
    pout         \* its result, "-" before it is applied

mgrVars == <<status, mu, lastStart, run, listeners, pools>>
lsnVars == <<canal, cursor, inflight, stale, queue, closed, lctx, emitted>>
wrkVars == <<pctx, wpc, batch, todo, cur, after>>
dstVars == <<committed, rolledBack, store>>
tblVars == <<conflicts, history>>
schVars == <<enabled, tpc, lastTrigger>>
pureVars == <<pin, pout>>
pipeVars == <<mgrVars, lsnVars, wrkVars, dstVars, binlog, panicked>>
vars == <<mgrVars, lsnVars, wrkVars, dstVars, binlog, panicked, tblVars, schVars,
          storeFailures, pureVars>>


\* ------------------------------------------------------------ positions
\* canal.SyncedPosition(): the binlog file rotates every EventsPerFile events
FileOf(i) == ((i - 1) \div EventsPerFile) + 1
OffsetOf(i) == ((i - 1) % EventsPerFile) + 1
PosOf(i) == [file |-> FileOf(i), pos |-> OffsetOf(i)]

\* (file, offset) order of the source log
PosLess(p, q) == p.file < q.file \/ (p.file = q.file /\ p.pos < q.pos)

\* ------------------------------------------------------- sequence helpers
RECURSIVE SelectTable(_, _)
SelectTable(s, t) ==
    IF s = <<>> THEN <<>>
    ELSE IF binlog[Head(s)] = t THEN <<Head(s)>> \o SelectTable(Tail(s), t)
         ELSE SelectTable(Tail(s), t)

Range(s) == {s[i] : i \in 1..Len(s)}
TablesOf(s) == {binlog[s[i]] : i \in 1..Len(s)}
IsPrefix(s, t) == Len(s) <= Len(t) /\ \A i \in 1..Len(s) : s[i] = t[i]

RECURSIVE SortedSeq(_)
SortedSeq(S) ==
    IF S = {} THEN <<>>
    ELSE LET m == CHOOSE x \in S : \A y \in S : x <= y
         IN <<m>> \o SortedSeq(S \ {m})

\* ------------------------------------------------------------------ Init
\* NewManager: status "idle", nothing built; the stores are empty
ComponentsInit ==
    /\ status = "idle"
    /\ mu = "free"
    /\ lastStart = "none"
    /\ run = 0
    /\ listeners = {}
    /\ pools = {}
    /\ binlog = <<>>
    /\ canal = "none"
    /\ cursor = 1
    /\ inflight = 0
    /\ stale = FALSE
    /\ queue = <<>>
    /\ closed = FALSE
    /\ lctx = FALSE
    /\ pctx = FALSE
    /\ wpc = [w \in WorkerIds |-> "none"]
    /\ batch = [w \in WorkerIds |-> <<>>]
    /\ todo = [w \in WorkerIds |-> {}]
    /\ cur = [w \in WorkerIds |-> "-"]
    /\ after = [w \in WorkerIds |-> "loop"]
    /\ committed = <<>>
    /\ rolledBack = {}
    /\ emitted = {}
    /\ store = [t \in Tables |-> NoState]
    /\ conflicts = {}
    /\ history = {}
    /\ panicked = FALSE

\* main constructs no Scheduler: no cron job exists
SchedulerOff ==
    /\ enabled = FALSE
    /\ tpc = "wait"
    /\ lastTrigger = "none"

PipelineInit ==
    /\ ComponentsInit
    /\ SchedulerOff
    /\ storeFailures = 0

Init ==
    /\ PipelineInit
    /\ pin = "-"
    /\ pout = "-"

\* ---------------------------------------------------------------- source
\* a client of the source database commits a row change on table t
Write(t, limit) ==
    /\ ~panicked
    /\ Len(binlog) < limit
    /\ binlog' = Append(binlog, t)
    /\ UNCHANGED <<mgrVars, lsnVars, wrkVars, dstVars, panicked, tblVars, schVars,
                 storeFailures, pureVars>>

\* the rows the model follows through the pipeline of Next
SourceWrite(t) ==
    /\ t \in Tables
    /\ Write(t, MaxEvents)

\* --------------------------------------------------------------- Manager
\* the guard of Manager.Start
AlreadyRunning_Never == FALSE
AlreadyRunning == status = "running"

\* the status Manager.Start stores on success, Manager.Stop on return
StatusAfterStart_Starting == "starting"
StatusAfterStart == "running"
StatusAfterStop == "idle"

\* Manager.Start, entirely under m.mu.  canalOk is the outcome of
\* canal.NewCanal inside NewBinlogListener.
Start(canalOk) ==
    /\ ~panicked
    /\ mu = "free"
    /\ IF AlreadyRunning
       THEN /\ lastStart' = "AlreadyRunning"
            /\ UNCHANGED <<status, mu, run, listeners, pools>>
            /\ UNCHANGED <<lsnVars, wrkVars>>
       ELSE IF ~canalOk
       THEN /\ lastStart' = "CanalError"
            /\ UNCHANGED <<status, mu, run, listeners, pools>>
            /\ UNCHANGED <<lsnVars, wrkVars>>
       ELSE /\ run < MaxRuns
            /\ run' = run + 1
            /\ lastStart' = "started"
            \* NewBinlogListener: fresh channel and context
            /\ queue' = <<>>
            /\ closed' = FALSE
            /\ lctx' = FALSE
            /\ inflight' = 0
            \* NewWorkerPool + WorkerPool.Start: fresh context, go w.run()
            /\ pctx' = FALSE
            /\ wpc' = [w \in WorkerIds |-> "select"]
            /\ batch' = [w \in WorkerIds |-> <<>>]
            /\ todo' = [w \in WorkerIds |-> {}]
            /\ pools' = pools \cup {run + 1}
            \* BinlogListener.Start: go canal.Run(), return nil
            /\ canal' = "connecting"
            /\ listeners' = listeners \cup {run + 1}
            /\ status' = StatusAfterStart
            /\ UNCHANGED <<mu, cursor, stale, emitted, cur, after>>
    /\ UNCHANGED <<dstVars, binlog, panicked, tblVars, pureVars>>

\* Start called by the API handler's TriggerSync
ManagerStart(canalOk) ==
    /\ Start(canalOk)
    /\ UNCHANGED <<schVars, storeFailures>>

\* the early return of Manager.Stop
StopReturnsAtOnce_Never == FALSE
StopReturnsAtOnce == status # "running"

\* Manager.Stop up to the return of BinlogListener.Stop: l.cancel(),
\* canal.Close(), close(l.eventChan).  A Stop that finds the status not
\* "running" returns at once.  m.binlogListener is nil before the first
\* Start; closing a channel that is already closed panics.
ManagerStopBegin ==
    /\ ~panicked
    /\ mu = "free"
    /\ IF StopReturnsAtOnce
       THEN UNCHANGED <<mgrVars, lsnVars, panicked>>
       ELSE /\ mu' = "cancel"
            /\ UNCHANGED <<status, lastStart, run, pools>>
            /\ IF run = 0
               THEN UNCHANGED <<lsnVars, listeners, panicked>>
               ELSE IF closed
               THEN /\ panicked' = TRUE
                    /\ UNCHANGED <<lsnVars, listeners>>
               ELSE /\ lctx' = TRUE
                    /\ canal' = "closed"
                    /\ closed' = TRUE
                    /\ stale' = (stale \/ inflight # 0)
                    /\ inflight' = 0
                    /\ listeners' = listeners \ {run}
                    /\ cursor' = 1
                    /\ UNCHANGED <<queue, emitted, panicked>>
    /\ UNCHANGED <<wrkVars, dstVars, binlog, tblVars, schVars,
                 storeFailures, pureVars>>

\* Manager.Stop, WorkerPool.Stop up to its wg.Wait: p.cancel()
ManagerStopCancel ==
    /\ ~panicked
    /\ mu = "cancel"
    /\ mu' = "stop"
    /\ pctx' = (pctx \/ run # 0)
    /\ UNCHANGED <<status, lastStart, run, listeners, pools>>
    /\ UNCHANGED <<wpc, batch, todo, cur, after>>
    /\ UNCHANGED <<lsnVars, dstVars, binlog, panicked, tblVars, schVars,
                 storeFailures, pureVars>>

\* p.wg.Wait in WorkerPool.Stop: every worker has run its deferred wg.Done
WorkersDone_NoWait == TRUE
WorkersDone == \A w \in WorkerIds : wpc[w] \in {"exited", "none"}

\* wg.Wait returns once every worker has run its deferred wg.Done
ManagerStopEnd ==
    /\ ~panicked
    /\ mu = "stop"
    /\ WorkersDone
    /\ pools' = pools \ {run}
    /\ status' = StatusAfterStop
    /\ mu' = "free"
    /\ UNCHANGED <<lastStart, run, listeners>>
    /\ UNCHANGED <<lsnVars, wrkVars, dstVars, binlog, panicked, tblVars, schVars,
                 storeFailures, pureVars>>

\* -------------------------------------------------------------- listener
\* where canal.Run begins to stream: no position is handed to the canal,
\* so it asks the source for its current tail
ResumeCursor == Len(binlog) + 1

\* the canal goroutine opens the replication stream
CanalConnect ==
    /\ ~panicked
    /\ canal = "connecting"
    /\ canal' = "streaming"
    /\ cursor' = ResumeCursor
    /\ UNCHANGED <<inflight, stale, queue, closed, lctx, emitted>>
    /\ UNCHANGED <<mgrVars, wrkVars, dstVars, binlog, panicked, tblVars, schVars,
                 storeFailures, pureVars>>

\* canal.Run returns an error, which the goroutine only logs: the stream
\* could not be opened ("openFailed") or broke later ("streamFailed")
CanalFail ==
    /\ ~panicked
    /\ inflight = 0
    /\ \/ canal = "connecting" /\ canal' = "openFailed"
       \/ canal = "streaming" /\ canal' = "streamFailed"
    /\ cursor' = 1
    /\ UNCHANGED <<inflight, stale, queue, closed, lctx, emitted>>
    /\ UNCHANGED <<mgrVars, wrkVars, dstVars, binlog, panicked, tblVars, schVars,
                 storeFailures, pureVars>>

\* OnRow up to its select: the next row event is stamped and held
OnRowRead ==
    /\ ~panicked
    /\ canal = "streaming"
    /\ inflight = 0
    /\ cursor <= Len(binlog)
    /\ inflight' = cursor
    /\ cursor' = cursor + 1
    /\ UNCHANGED <<canal, stale, queue, closed, lctx, emitted>>
    /\ UNCHANGED <<mgrVars, wrkVars, dstVars, binlog, panicked, tblVars, schVars,
                 storeFailures, pureVars>>

\* make(chan BinlogEvent, 10000): a send proceeds only while the buffer
\* has room
ChanHasRoom_Unbounded == TRUE
ChanHasRoom == Len(queue) < QueueCap

\* eventChan <- binlogEvent: the event goes to the back of the buffer
Enqueue_Drop(q, e) == q
Enqueue(q, e) == Append(q, e)

\* the select of OnRow, case eventChan <- binlogEvent (blocks while full)
OnRowSend ==
    /\ ~panicked
    /\ canal = "streaming"
    /\ inflight # 0
    /\ ~closed
    /\ ChanHasRoom
    /\ queue' = Enqueue(queue, inflight)
    /\ emitted' = emitted \cup {inflight}
    /\ inflight' = 0
    /\ UNCHANGED <<canal, cursor, stale, closed, lctx>>
    /\ UNCHANGED <<mgrVars, wrkVars, dstVars, binlog, panicked, tblVars, schVars,
                 storeFailures, pureVars>>

\* the select of an OnRow that outlived BinlogListener.Stop: the context is
\* done and the channel is closed, so either case may be taken; the send
\* on the closed channel panics
StaleOnRow(sendCase) ==
    /\ ~panicked
    /\ stale
    /\ stale' = FALSE
    /\ panicked' = sendCase
    /\ UNCHANGED <<canal, cursor, inflight, queue, closed, lctx, emitted>>
    /\ UNCHANGED <<mgrVars, wrkVars, dstVars, binlog, tblVars, schVars,
                 storeFailures, pureVars>>

\* the workers run the same code on the same channel: of several workers in
\* the same local state, the one with the lowest id is taken to step first
First(w) ==
    \A v \in WorkerIds :
        v < w => <<wpc[v], batch[v], todo[v], cur[v], after[v]>>
                 # <<wpc[w], batch[w], todo[w], cur[w], after[w]>>


\* ---------------------------------------------------------------- worker
\* the events of table t in a worker's batch, in buffer order
EventsOf_All(w, t) == batch[w]
EventsOf(w, t) == SelectTable(batch[w], t)

\* processBatch: on entry the buffer is grouped by table; a worker with an
\* empty buffer returns at once
EnterFlush(w, then) ==
    IF batch'[w] = <<>>
    THEN /\ wpc' = [wpc EXCEPT ![w] = IF then = "exit" THEN "exited" ELSE "select"]
         /\ UNCHANGED <<todo, after>>
    ELSE /\ wpc' = [wpc EXCEPT ![w] = "flush"]
         /\ todo' = [todo EXCEPT ![w] = TablesOf(batch'[w])]
         /\ after' = [after EXCEPT ![w] = then]

\* case event, ok := <-eventChan with ok: append, flush at the row cap
WorkerRecv(w) ==
    /\ ~panicked
    /\ First(w)
    /\ wpc[w] = "select"
    /\ queue # <<>>
    /\ queue' = Tail(queue)
    /\ batch' = [batch EXCEPT ![w] = Append(@, Head(queue))]
    /\ IF Len(batch'[w]) >= BatchSize
       THEN EnterFlush(w, "loop")
       ELSE UNCHANGED <<wpc, todo, after>>
    /\ UNCHANGED <<pctx, cur>>
    /\ UNCHANGED <<canal, cursor, inflight, stale, closed, lctx, emitted>>
    /\ UNCHANGED <<mgrVars, dstVars, binlog, panicked, tblVars, schVars,
                 storeFailures, pureVars>>

\* case event, ok := <-eventChan with !ok: flush remaining and return
WorkerEOF(w) ==
    /\ ~panicked
    /\ First(w)
    /\ wpc[w] = "select"
    /\ closed
    /\ queue = <<>>
    /\ batch' = batch
    /\ EnterFlush(w, "exit")
    /\ UNCHANGED <<pctx, cur>>
    /\ UNCHANGED <<lsnVars, mgrVars, dstVars, binlog, panicked, tblVars, schVars,
                 storeFailures, pureVars>>

\* case <-ticker.C with a non-empty buffer
WorkerTick(w) ==
    /\ ~panicked
    /\ First(w)
    /\ wpc[w] = "select"
    /\ batch[w] # <<>>
    /\ batch' = batch
    /\ EnterFlush(w, "loop")
    /\ UNCHANGED <<pctx, cur>>
    /\ UNCHANGED <<lsnVars, mgrVars, dstVars, binlog, panicked, tblVars, schVars,
                 storeFailures, pureVars>>

\* case <-ctx.Done(): flush remaining and return
WorkerCancel(w) ==
    /\ ~panicked
    /\ First(w)
    /\ wpc[w] = "select"
    /\ pctx
    /\ batch' = batch
    /\ EnterFlush(w, "exit")
    /\ UNCHANGED <<pctx, cur>>
    /\ UNCHANGED <<lsnVars, mgrVars, dstVars, binlog, panicked, tblVars, schVars,
                 storeFailures, pureVars>>

\* the end of one iteration of the loop over eventsByTable; after the last
\* one the buffer is cleared (w.batch = w.batch[:0]) and processBatch returns
NextTable(w, t) ==
    /\ todo' = [todo EXCEPT ![w] = @ \ {t}]
    /\ cur' = [cur EXCEPT ![w] = "-"]
    /\ IF todo[w] \ {t} = {}
       THEN /\ batch' = [batch EXCEPT ![w] = <<>>]
            /\ wpc' = [wpc EXCEPT ![w] =
                         IF after[w] = "exit" THEN "exited" ELSE "select"]
            /\ after' = [after EXCEPT ![w] = "loop"]
       ELSE /\ wpc' = [wpc EXCEPT ![w] = "flush"]
            /\ UNCHANGED <<batch, after>>

\* whether processBatch goes on to updateState after applyChanges returned
UpdatesState_Always(txOk) == TRUE
UpdatesState(txOk) == txOk

\* Database.ExecTx returns nil: d.DB.BeginTx(ctx, nil) ... tx.Commit()
\* succeed only if the destination works and ctx, the pool's context, is
\* not cancelled
TxCommits(destOk) == destOk /\ ~pctx

\* Database.ExecTx: the transaction commits all of the table's events, or
\* fails and leaves none of them
ExecTx_Partial(w, t, destOk) ==
    /\ committed' = committed \o <<Head(EventsOf(w, t))>>
    /\ rolledBack' = rolledBack \cup Range(Tail(EventsOf(w, t)))
ExecTx(w, t, destOk) ==
    IF TxCommits(destOk)
    THEN /\ committed' = committed \o EventsOf(w, t)
         /\ UNCHANGED rolledBack
    ELSE /\ rolledBack' = rolledBack \cup Range(EventsOf(w, t))
         /\ UNCHANGED committed

\* one iteration of processBatch's loop: applyChanges(table, events); the
\* map is visited in any order
WorkerApply(w, t, destOk) ==
    /\ ~panicked
    /\ First(w)
    /\ wpc[w] = "flush"
    /\ t \in todo[w]
    /\ ExecTx(w, t, destOk)
    /\ IF UpdatesState(TxCommits(destOk))
       THEN /\ wpc' = [wpc EXCEPT ![w] = "update"]
            /\ cur' = [cur EXCEPT ![w] = t]
            /\ UNCHANGED <<todo, batch, after>>
       ELSE NextTable(w, t)
    /\ UNCHANGED <<pctx, store>>
    /\ UNCHANGED <<lsnVars, mgrVars, binlog, panicked, tblVars, schVars,
                 storeFailures, pureVars>>

\* processBatch hands updateState the last event of the table's group
LastOf_First(events) == events[1]
LastOf(events) == events[Len(events)]

\* the row updateState builds from the last event of the table's group
StateOf(lastEvent) ==
    [file |-> PosOf(lastEvent).file, pos |-> PosOf(lastEvent).pos,
     rows |-> 0, valid |-> TRUE]

\* MySQLStore.UpdateSyncState: INSERT ... ON DUPLICATE KEY UPDATE, every
\* column overwritten with the new row
UpdateSyncState(t, state) == [store EXCEPT ![t] = state]

\* MySQLStore.UpdateSyncState only runs s.db.ExecContext: it waits for no
\* lock of the Manager and calls nothing of the pipeline
StoreTakesNoLock_ManagerMutex == mu = "free"
StoreTakesNoLock == TRUE

\* updateState(table, lastEvent); the store write runs with the pool's
\* context, so it fails once that is cancelled; its error is dropped
updateState(w, storeOk) ==
    /\ ~panicked
    /\ First(w)
    /\ wpc[w] = "update"
    /\ StoreTakesNoLock
    /\ LET events == EventsOf(w, cur[w])
           lastEvent == LastOf(events)
       IN store' = IF storeOk /\ ~pctx
                   THEN UpdateSyncState(cur[w], StateOf(lastEvent))
                   ELSE store
    /\ NextTable(w, cur[w])
    /\ UNCHANGED <<pctx, committed, rolledBack>>
    /\ UNCHANGED <<lsnVars, mgrVars, binlog, panicked, tblVars, schVars, pureVars>>

WorkerUpdateState(w, storeOk) ==
    /\ updateState(w, storeOk)
    /\ UNCHANGED storeFailures

\* ------------------------------------------------------------------ Next
Next ==
    \/ \E t \in Tables : SourceWrite(t)
    \/ \E canalOk \in BOOLEAN : ManagerStart(canalOk)
    \/ ManagerStopBegin
    \/ ManagerStopCancel
    \/ ManagerStopEnd
    \/ CanalConnect
    \/ CanalFail
    \/ OnRowRead
    \/ OnRowSend
    \/ \E sendCase \in BOOLEAN : StaleOnRow(sendCase)
    \/ \E w \in WorkerIds : WorkerRecv(w)
    \/ \E w \in WorkerIds : WorkerEOF(w)
    \/ \E w \in WorkerIds : WorkerTick(w)
    \/ \E w \in WorkerIds : WorkerCancel(w)
    \/ \E w \in WorkerIds, t \in Tables, destOk \in BOOLEAN : WorkerApply(w, t, destOk)
    \/ \E w \in WorkerIds, storeOk \in BOOLEAN : WorkerUpdateState(w, storeOk)

Spec == Init /\ [][Next]_vars

\* what one worker goroutine can do next
WorkerStep(w) ==
    \/ WorkerRecv(w)
    \/ WorkerEOF(w)
    \/ WorkerTick(w)
    \/ WorkerCancel(w)
    \/ \E t \in Tables, destOk \in BOOLEAN : WorkerApply(w, t, destOk)
    \/ \E storeOk \in BOOLEAN : WorkerUpdateState(w, storeOk)

\* the goroutines the program started keep being scheduled: the canal's
\* reader, a running OnRow, every worker, and a Stop that holds the mutex.
\* Calls of Start and Stop, writes at the source and failures of the
\* replication stream are up to the environment.
Fairness ==
    /\ WF_vars(CanalConnect)
    /\ WF_vars(OnRowRead)
    /\ WF_vars(OnRowSend)
    /\ WF_vars(\E sendCase \in BOOLEAN : StaleOnRow(sendCase))
    /\ WF_vars(ManagerStopCancel)
    /\ WF_vars(ManagerStopEnd)
    /\ \A w \in WorkerIds : WF_vars(WorkerStep(w))

FairSpec == Spec /\ Fairness

\* the pipeline with a destination that is always reachable: a transaction
\* fails only for a reason of the program's own
DestUpNext ==
    \/ \E t \in Tables : SourceWrite(t)
    \/ \E canalOk \in BOOLEAN : ManagerStart(canalOk)
    \/ ManagerStopBegin
    \/ ManagerStopCancel
    \/ ManagerStopEnd
    \/ CanalConnect
    \/ CanalFail
    \/ OnRowRead
    \/ OnRowSend
    \/ \E sendCase \in BOOLEAN : StaleOnRow(sendCase)
    \/ \E w \in WorkerIds : WorkerRecv(w)
    \/ \E w \in WorkerIds : WorkerEOF(w)
    \/ \E w \in WorkerIds : WorkerTick(w)
    \/ \E w \in WorkerIds : WorkerCancel(w)
    \/ \E w \in WorkerIds, t \in Tables : WorkerApply(w, t, TRUE)
    \/ \E w \in WorkerIds, storeOk \in BOOLEAN : WorkerUpdateState(w, storeOk)

DestUpSpec == Init /\ [][DestUpNext]_vars

\* ------------------------------------------------------- table filtering
\* A name is a sequence of characters.  Of the characters that mean
\* something in a regular expression only "." is explored.
Chars == {"a", "b", "."}
Names ==
    {n \in UNION {[1..k -> Chars] : k \in 1..MaxNameLen} : n[1] # "."}
TableNames == {<<"a">>, <<"b">>}
Actions == {"insert", "update", "delete", "other"}

\* what regexp.Compile makes of a name that is pasted into a pattern as it
\* is: "." matches any character, a letter matches itself
Compile(name) ==
    [i \in 1..Len(name) |-> IF name[i] = "." THEN "ANY" ELSE name[i]]

\* fmt.Sprintf("^%s\\.%s$", cfg.Database, t.Name), compiled
TableRegex(database, name) == Compile(database) \o <<".">> \o Compile(name)

\* Regexp.MatchString for an anchored pattern without repetition
MatchString(re, str) ==
    /\ Len(re) = Len(str)
    /\ \A i \in 1..Len(re) : re[i] = "ANY" \/ re[i] = str[i]

\* canal's key of a table: fmt.Sprintf("%s.%s", schema, table)
TableKey(schema, table) == schema \o <<".">> \o table

\* canal: a rows event reaches the handler only if its table's key matches
\* one of IncludeTableRegex
CheckTableMatch(in) ==
    \E name \in in.tables :
        MatchString(TableRegex(in.database, name), TableKey(in.schema, in.table))

\* OnRow before its select: the lookup in the table map, the switch on
\* e.Action
OnRowAccepts(in) ==
    /\ in.table \in in.tables
    /\ in.action \in {"insert", "update", "delete"}

\* a configuration (cfg.Database, the configured table names) and a rows
\* event of the source
FilterInit ==
    /\ PipelineInit
    /\ pin \in [database : Names, tables : SUBSET TableNames \ {{}},
                schema : Names, table : TableNames, action : Actions]
    /\ pout = "-"

\* the canal decides whether the event is handed to OnRow
CanalFilter ==
    /\ pout = "-"
    /\ pout' = IF CheckTableMatch(pin) THEN "handler" ELSE "excluded"
    /\ UNCHANGED <<pipeVars, tblVars, schVars, storeFailures, pin>>

\* OnRow decides whether the event goes to the queue
OnRowFilter ==
    /\ pout = "handler"
    /\ pout' = IF OnRowAccepts(pin) THEN "emitted" ELSE "skipped"
    /\ UNCHANGED <<pipeVars, tblVars, schVars, storeFailures, pin>>

FilterNext == CanalFilter \/ OnRowFilter

FilterSpec == FilterInit /\ [][FilterNext]_vars

\* ---------------------------------------------------- conflict detection
\* A row image is a map[string]interface{}: the primary key and some of
\* the other columns, each with a value.
Columns == {"id", "name", "updated_at"}
Values == {"v1", "v2"}
RowImages ==
    UNION {[D -> Values] : D \in {C \in SUBSET Columns : "id" \in C}}

\* the columns in the order in which json.Marshal writes the keys of a map
SortedColumns == <<"id", "name", "updated_at">>

\* json.Marshal(data): the key/value pairs of the map, keys sorted
Marshal(data) ==
    LET keys == SelectSeq(SortedColumns, LAMBDA c : c \in DOMAIN data)
    IN [i \in 1..Len(keys) |-> <<keys[i], data[keys[i]]>>]

\* calculateHash: the SHA-256 of the JSON text; SHA-256 is taken to be free
\* of collisions, so the hash stands for the text
calculateHash(data) == Marshal(data)

\* ConflictManager.DetectConflict: its boolean result
DetectConflict(localData, cloudData) ==
    IF calculateHash(localData) = calculateHash(cloudData)
    THEN "same" ELSE "conflict"

\* the two images of one row
ConflictInit ==
    /\ PipelineInit
    /\ pin \in [localData : RowImages, cloudData : RowImages]
    /\ pout = "-"

\* one call of DetectConflict
DetectConflictCall ==
    /\ pout = "-"
    /\ pout' = DetectConflict(pin.localData, pin.cloudData)
    /\ UNCHANGED <<pipeVars, tblVars, schVars, storeFailures, pin>>

ConflictSpec == ConflictInit /\ [][DetectConflictCall]_vars

\* --------------------------------------------------- conflict resolution
\* The images Resolve is given: with or without the timestamp column, whose
\* text is a time of day or not a time at all.
TimeTexts == {"10:00", "11:00", "soon"}
TimedImages ==
    UNION {[D -> Values \cup TimeTexts] : D \in {{"id", "name"}, Columns}}
StampedImages ==
    {img \in TimedImages :
        /\ img["id"] = "v1"
        /\ img["name"] \in Values
        /\ "updated_at" \in DOMAIN img => img["updated_at"] \in TimeTexts}

\* conflict.LocalData / conflict.CloudData: the JSON text of an image, or a
\* text that is not JSON
RawMessages ==
    [valid : {TRUE}, doc : StampedImages] \cup {[valid |-> FALSE, doc |-> <<>>]}

\* json.Unmarshal(raw, &m) with its error dropped: the map, or the nil map
\* the variable was declared with
Unmarshal(raw) == IF raw.valid THEN raw.doc ELSE <<>>

\* LastWriteWinsStrategy.Resolve: both images are decoded and the local
\* one is returned with a nil error
Resolve(conflict) ==
    LET local == Unmarshal(conflict.LocalData)
        cloud == Unmarshal(conflict.CloudData)
    IN [image |-> local, err |-> "nil"]

\* the result before Resolve has returned
NotResolved == [image |-> <<>>, err |-> "pending"]

\* a stored conflict handed to the strategy
ResolveInit ==
    /\ PipelineInit
    /\ pin \in [LocalData : RawMessages, CloudData : RawMessages]
    /\ pout = NotResolved

\* one call of Resolve
ResolveCall ==
    /\ pout = NotResolved
    /\ pout' = Resolve(pin)
    /\ UNCHANGED <<pipeVars, tblVars, schVars, storeFailures, pin>>

ResolveSpec == ResolveInit /\ [][ResolveCall]_vars

\* ------------------------------------------------------- conflicts table
\* conflicts(id PRIMARY KEY, table_name, primary_key_value, local_data,
\* cloud_data, conflict_type, detected_at, resolved, resolution_strategy,
\* resolved_at, resolved_data); no other key or constraint
ConflictIds == {"c1", "c2"}
PrimaryKeys == {"k1", "k2"}
Times == {1, 2}
Strategies == {"last_write_wins", "manual"}

\* the images of one row on the two sides
SideImages ==
    {[id |-> "v1", name |-> "v1"], [id |-> "v1", name |-> "v2"]}

\* the conflict DetectConflict builds: a fresh id, both images as JSON,
\* unresolved
NewConflict(id, table, pk, localData, cloudData, now) ==
    [id |-> id, table_name |-> table, primary_key_value |-> pk,
     local_data |-> Marshal(localData), cloud_data |-> Marshal(cloudData),
     conflict_type |-> "data_mismatch", detected_at |-> now,
     resolved |-> FALSE, resolution_strategy |-> "NULL",
     resolved_at |-> 0, resolved_data |-> <<>>]

\* MySQLStore.CreateConflict: a plain INSERT, which fails only on a
\* duplicate id
CreateConflict(rows, conflict) ==
    IF \E r \in rows : r.id = conflict.id
    THEN rows
    ELSE rows \cup {conflict}

\* DetectConflict answers true, then RecordConflict -> CreateConflict.  The
\* id is uuid.New().
RecordConflict(id, table, pk, localData, cloudData, now) ==
    /\ DetectConflict(localData, cloudData) = "conflict"
    /\ conflicts' = CreateConflict(conflicts,
                        NewConflict(id, table, pk, localData, cloudData, now))
    /\ UNCHANGED <<pipeVars, history, schVars, storeFailures, pureVars>>

\* the SET clause of ResolveConflict's UPDATE
ResolvedRow_Overwrite(r, strategy, resolvedData, now) ==
    [r EXCEPT !.resolved = TRUE, !.resolution_strategy = strategy,
              !.resolved_data = resolvedData, !.resolved_at = now,
              !.local_data = resolvedData]
ResolvedRow(r, strategy, resolvedData, now) ==
    [r EXCEPT !.resolved = TRUE, !.resolution_strategy = strategy,
              !.resolved_data = resolvedData, !.resolved_at = now]

\* the WHERE clause of ResolveConflict's UPDATE
Matches_Any(r, id) == TRUE
Matches(r, id) == r.id = id

\* MySQLStore.ResolveConflict: UPDATE conflicts SET ... WHERE id = ?
ResolveConflict(id, strategy, resolvedData, now) ==
    /\ conflicts' = {IF Matches(r, id)
                     THEN ResolvedRow(r, strategy, resolvedData, now)
                     ELSE r : r \in conflicts}
    /\ UNCHANGED <<pipeVars, history, schVars, storeFailures, pureVars>>

StoreNext ==
    \/ \E id \in ConflictIds, table \in Tables, pk \in PrimaryKeys,
          localData \in SideImages, cloudData \in SideImages, now \in Times :
            RecordConflict(id, table, pk, localData, cloudData, now)
    \/ \E id \in ConflictIds, strategy \in Strategies,
          image \in SideImages, now \in Times :
            ResolveConflict(id, strategy, Marshal(image), now)

StoreSpec == Init /\ [][StoreNext]_vars

TypeOK ==
    /\ status \in {"idle", "running"}
    /\ mu \in {"free", "cancel", "stop"}
    /\ run \in 0..MaxRuns
    /\ Len(binlog) <= MaxEvents
    /\ Len(queue) <= QueueCap

\* ---------------------------------------------------------------- sync mode
\* config.Sync.Mode as loaded from the configuration file
Modes == {"local_to_cloud", "cloud_to_local", "bidirectional"}

\* the database whose log NewBinlogListener is given by Manager.Start, and
\* the database NewWorkerPool applies to: neither reads the mode
ListenerSource(mode) == "local"
PoolTarget(mode) == "cloud"

\* the listener and pool pairs one Manager.Start constructs
Directions(mode) == {<<ListenerSource(mode), PoolTarget(mode)>>}

\* the pipeline under each configured mode, kept in pin
ModeInit ==
    /\ PipelineInit
    /\ pin \in Modes
    /\ pout = "-"

ModeSpec == ModeInit /\ [][Next]_vars

\* ---------------------------------------------------------------- scheduler
\* triggerSync up to its test of the status: Manager.GetStatus takes m.mu,
\* so it waits for a Stop in progress; on "running" the run is skipped.
\* One job is followed at a time.
TriggerGetStatus ==
    /\ ~panicked
    /\ enabled
    /\ tpc = "wait"
    /\ mu = "free"
    /\ IF status = "running"
       THEN /\ lastTrigger' = "skipped"
            /\ UNCHANGED tpc
       ELSE /\ tpc' = "start"
            /\ UNCHANGED lastTrigger
    /\ UNCHANGED <<pipeVars, tblVars, enabled, storeFailures, pureVars>>

\* the rest of triggerSync: Manager.Start, whose error is only logged
TriggerStart(canalOk) ==
    /\ tpc = "start"
    /\ Start(canalOk)
    /\ tpc' = "wait"
    /\ lastTrigger' = lastStart'
    /\ UNCHANGED <<enabled, storeFailures>>

\* Scheduler.Start: a disabled scheduler schedules no job
SchedInit ==
    /\ ComponentsInit
    /\ enabled \in BOOLEAN
    /\ tpc = "wait"
    /\ lastTrigger = "none"
    /\ storeFailures = 0
    /\ pin = "-"
    /\ pout = "-"

\* the pipeline with a Scheduler constructed on the Manager, followed
\* while one row passes through it
SchedNext ==
    \/ \E t \in Tables : binlog = <<>> /\ SourceWrite(t)
    \/ \E canalOk \in BOOLEAN : ManagerStart(canalOk)
    \/ ManagerStopBegin
    \/ ManagerStopCancel
    \/ ManagerStopEnd
    \/ CanalConnect
    \/ CanalFail
    \/ OnRowRead
    \/ OnRowSend
    \/ \E sendCase \in BOOLEAN : StaleOnRow(sendCase)
    \/ \E w \in WorkerIds : WorkerRecv(w)
    \/ \E w \in WorkerIds : WorkerEOF(w)
    \/ \E w \in WorkerIds : WorkerTick(w)
    \/ \E w \in WorkerIds : WorkerCancel(w)
    \/ \E w \in WorkerIds, t \in Tables, destOk \in BOOLEAN : WorkerApply(w, t, destOk)
    \/ \E w \in WorkerIds, storeOk \in BOOLEAN : WorkerUpdateState(w, storeOk)
    \/ TriggerGetStatus
    \/ \E canalOk \in BOOLEAN : TriggerStart(canalOk)

SchedSpec == SchedInit /\ [][SchedNext]_vars

\* the goroutines of Fairness keep being scheduled, and a triggerSync that
\* waits for m.mu gets it: sync.Mutex hands the lock to a waiter that has
\* been passed over
SchedFairness ==
    /\ Fairness
    /\ SF_vars(\E canalOk \in BOOLEAN : TriggerStart(canalOk))

FairSchedSpec == SchedSpec /\ SchedFairness

\* ------------------------------------------------- state-store failures
\* updateState, with the UpdateSyncState errors in a row counted
CountedUpdateState(w, storeOk) ==
    /\ updateState(w, storeOk)
    /\ storeFailures' = IF storeOk /\ ~pctx THEN 0 ELSE storeFailures + 1

\* one run that is never stopped, on a destination that is always
\* reachable, with one row more than MaxEvents so that a third flush happens
EscalateNext ==
    \/ \E t \in Tables : Write(t, MaxEvents + 1)
    \/ \E canalOk \in BOOLEAN : ManagerStart(canalOk)
    \/ CanalConnect
    \/ OnRowRead
    \/ OnRowSend
    \/ \E w \in WorkerIds : WorkerRecv(w)
    \/ \E w \in WorkerIds : WorkerTick(w)
    \/ \E w \in WorkerIds, t \in Tables : WorkerApply(w, t, TRUE)
    \/ \E w \in WorkerIds, storeOk \in BOOLEAN : CountedUpdateState(w, storeOk)

EscalateSpec == Init /\ [][EscalateNext]_vars

\* ===================================================== properties checked

\* the events the listener emitted for table t, in source order
EmittedOf(t) == SelectTable(SortedSeq(emitted), t)
\* the events committed at the destination for table t, in commit order
CommittedOf(t) == SelectTable(committed, t)
\* the binlog index of the event stamped with a stored position
IndexOf(st) == (st.file - 1) * EventsPerFile + st.pos

\* C1: at most one run is active at any time: there is never more than one
\* started listener or worker pool, and while the status is "running" no
\* step builds another listener or pool and every Start that returns
\* reports "already running".
C1_AtMostOneRun ==
    /\ [](Cardinality(pools) <= 1 /\ Cardinality(listeners) <= 1)
    /\ [][(status = "running" /\ mu = "free") =>
            /\ run' = run
            /\ pools' \subseteq pools
            /\ listeners' \subseteq listeners
            /\ (lastStart' # lastStart => lastStart' = "AlreadyRunning")]_vars

C1_Witness ==
    /\ status = "running"
    /\ lastStart = "AlreadyRunning"
    /\ Cardinality(pools) = 1
    /\ Cardinality(listeners) = 1

\* C2: position monotonicity: every write that changes the stored position
\* of a table moves it strictly forward in (file, offset) order.
C2_PositionMonotonic ==
    [][\A t \in Tables :
          (store[t].valid /\ store'[t] # store[t]) =>
              PosLess(store[t], store'[t])]_vars

\* C3: order preservation per table: the events committed for a table are
\* committed in source order and form a prefix of the events the listener
\* emitted for that table.
C3_OrderPreserved ==
    \A t \in Tables :
        /\ \A i, j \in 1..Len(CommittedOf(t)) :
              i < j => CommittedOf(t)[i] < CommittedOf(t)[j]
        /\ IsPrefix(CommittedOf(t), EmittedOf(t))

\* C4: each table is owned by one worker at a time: no two workers hold
\* events of the same table in their buffers.
C4_OneOwnerPerTable ==
    \A w1, w2 \in WorkerIds :
        w1 # w2 => TablesOf(batch[w1]) \cap TablesOf(batch[w2]) = {}

\* the first run, never stopped, has consumed the whole source log and
\* every worker waits with an empty buffer
Quiescent ==
    /\ run = 1 /\ status = "running" /\ mu = "free"
    /\ canal = "streaming" /\ inflight = 0 /\ cursor > Len(binlog)
    /\ queue = <<>>
    /\ \A w \in WorkerIds : wpc[w] = "select" /\ batch[w] = <<>>

\* C5: no loss: once a run that was not stopped has nothing left to do,
\* every emitted event is committed at the destination and each table's
\* events were committed in source order.
C5_NoLoss ==
    Quiescent =>
        \A t \in Tables : CommittedOf(t) = EmittedOf(t)

\* C6: the stored position of a table reflects only committed batches: it
\* is the position of an event of that table that is committed at the
\* destination, never that of an event whose transaction failed.
C6_PositionOnlyCommitted ==
    \A t \in Tables :
        store[t].valid =>
            /\ \E e \in Range(committed) :
                  binlog[e] = t /\ PosOf(e) = [file |-> store[t].file, pos |-> store[t].pos]
            /\ IndexOf(store[t]) \notin rolledBack

\* a transaction of a table failed after an earlier batch of that table
\* had been committed and its position stored, and the position stayed
C6_Witness ==
    \E e \in rolledBack :
        /\ store[binlog[e]].valid
        /\ PosLess(store[binlog[e]], PosOf(e))

\* C7: a failed batch stays pending: an event leaves a worker's buffer only
\* when it has been committed.
C7_FailedBatchKept ==
    [][\A w \in WorkerIds : \A e \in Range(batch[w]) :
          e \notin Range(batch'[w]) => e \in Range(committed')]_vars

\* the binlog index after the least position stored for any table, or the
\* source tail when no table has a stored position
DurableResume ==
    LET stored == {t \in Tables : store[t].valid}
    IN IF stored = {} THEN Len(binlog) + 1
       ELSE LET least == CHOOSE t \in stored :
                            \A u \in stored : IndexOf(store[t]) <= IndexOf(store[u])
            IN IndexOf(store[least]) + 1

\* C8: crash/restart recovery: the listener begins to stream right after
\* the least stored position, so every source event after the last durable
\* position is delivered again.
C8_ResumeFromStored ==
    [][(canal = "connecting" /\ canal' = "streaming") =>
          cursor' = DurableResume]_vars

\* C9: listener start reports failure synchronously: the status is
\* "running" only when the replication stream was opened and streaming
\* has begun.
C9_StartReportsFailure ==
    status = "running" => canal \in {"streaming", "streamFailed"}

\* the transitions of the Manager's state machine as specified
SpecTransitions ==
    {<<"idle", "starting">>, <<"starting", "running">>, <<"running", "stopping">>,
     <<"stopping", "idle">>, <<"starting", "failed">>, <<"running", "failed">>,
     <<"failed", "idle">>}

C11_StreamErrorLeavesRunning ==
    (status = "running" /\ canal = "streamFailed") ~> (status # "running")

\* C12: Stop is idempotent: a Manager.Stop issued while the status is not
\* "running" (the Manager is idle, or a first Stop has returned) changes
\* nothing; outside a Start nothing stops the listener, closes the queue or
\* cancels the pool of a stopped Manager again, and a Stop in progress
\* closes and cancels once.
C12_StopIdempotent ==
    /\ [][(status # "running" /\ ManagerStopBegin) => UNCHANGED vars]_vars
    /\ [][(status # "running" /\ run' = run) =>
            UNCHANGED <<status, mu, closed, lctx, pctx, canal, listeners, pools>>]_vars
    /\ [][mu # "free" => UNCHANGED <<closed, lctx, canal, listeners>>]_vars
    /\ [][mu = "stop" => UNCHANGED pctx]_vars

\* a Manager that was stopped and on which Stop can be called again
C12_Witness ==
    /\ status = "idle" /\ mu = "free" /\ ~panicked
    /\ run >= 1 /\ closed /\ lctx /\ pctx

\* C13: drain on stop, with the destination reachable: a worker that exits
\* has committed every event that was in its buffer.
C13_DrainOnStop ==
    [][\A w \in WorkerIds :
          (wpc[w] # "exited" /\ wpc'[w] = "exited") =>
              Range(batch[w]) \subseteq Range(committed')]_vars

\* C14: listener stop is orderly: the queue is closed only after the
\* producer has deposited its in-flight event, so no OnRow is left holding
\* an event for a closed queue and no send on a closed queue is attempted.
C14_OrderlyListenerStop ==
    ~stale /\ ~panicked

\* C15: events pending in the queue when it is closed are drained: once
\* every worker of the stopped run has exited, no enqueued event is left
\* in the queue.
C15_QueueDrained ==
    (closed /\ \A w \in WorkerIds : wpc[w] = "exited") => queue = <<>>

RECURSIVE Buffered(_)
Buffered(S) ==
    IF S = {} THEN 0
    ELSE LET w == CHOOSE x \in S : TRUE
         IN Len(batch[w]) + Buffered(S \ {w})

C18_StopReturns ==
    (mu # "free") ~> (mu = "free" /\ status = "idle")

\* C19: filtering: an event is emitted only if its (schema, table) pair is
\* in the allow-list, that is its schema is the configured database and its
\* table one of the configured tables, and it is an INSERT, UPDATE or
\* DELETE row event.
C19_OnlyAllowListed ==
    pout = "emitted" =>
        /\ pin.schema = pin.database
        /\ pin.table \in pin.tables
        /\ pin.action \in {"insert", "update", "delete"}

\* the ignore-list the specification gives a table, typically updated_at
IgnoreList == {"updated_at"}

\* the two images differ in column c: it is in one of them only, or its
\* values differ
DiffersIn(localData, cloudData, c) ==
    \/ (c \in DOMAIN localData) # (c \in DOMAIN cloudData)
    \/ /\ c \in DOMAIN localData
       /\ c \in DOMAIN cloudData
       /\ localData[c] # cloudData[c]

\* C20: conflict detection: DetectConflict reports a conflict if and only
\* if the two images differ in at least one column outside the ignore-list;
\* images that differ only in an ignored column are not a conflict.
C20_ConflictIffDiffer ==
    pout # "-" =>
        (pout = "conflict" <=>
            \E c \in Columns \ IgnoreList :
                DiffersIn(pin.localData, pin.cloudData, c))

\* the unresolved conflicts stored for a (table, primary key) pair
Unresolved(table, pk) ==
    {r \in conflicts :
        r.table_name = table /\ r.primary_key_value = pk /\ ~r.resolved}

\* C21: conflict uniqueness: the store holds at most one unresolved
\* conflict per (table_name, primary_key_value).
C21_ConflictUnique ==
    \A table \in Tables, pk \in PrimaryKeys :
        Cardinality(Unresolved(table, pk)) <= 1

\* C22: resolution never loses either image: no step changes the local
\* image, cloud image, table name, primary key value, conflict type or
\* detection time of a stored conflict, and no conflict leaves the store;
\* ResolveConflict only sets resolved, the strategy, the resolved image and
\* the resolution time.
C22_ResolveKeepsImages ==
    [][\A r \in conflicts :
          \E q \in conflicts' :
              /\ q.id = r.id
              /\ q.local_data = r.local_data
              /\ q.cloud_data = r.cloud_data
              /\ q.table_name = r.table_name
              /\ q.primary_key_value = r.primary_key_value
              /\ q.conflict_type = r.conflict_type
              /\ q.detected_at = r.detected_at
              /\ (q # r => q.resolved)]_vars

\* a conflict was resolved with the image of the other side
C22_Witness ==
    \E r \in conflicts :
        /\ r.resolved
        /\ r.resolved_data = r.cloud_data
        /\ r.local_data # r.cloud_data

\* the table's timestamp_column
TimestampColumn == "updated_at"

\* the image decodes and its timestamp column holds a time
WellFormed(raw) ==
    /\ raw.valid
    /\ TimestampColumn \in DOMAIN raw.doc
    /\ raw.doc[TimestampColumn] \in {"10:00", "11:00"}

\* the hour a well-formed timestamp names
HourOf(raw) == IF raw.doc[TimestampColumn] = "10:00" THEN 10 ELSE 11

\* C23: last-write-wins picks the newer image: with well-formed timestamps
\* Resolve returns the cloud image when the cloud timestamp is strictly
\* greater, and the local image when the local one is greater or on a tie
\* (local -> cloud has precedence).
C23_NewerImageWins ==
    (pout # NotResolved /\ WellFormed(pin.LocalData) /\ WellFormed(pin.CloudData)) =>
        /\ pout.err = "nil"
        /\ pout.image = IF HourOf(pin.CloudData) > HourOf(pin.LocalData)
                        THEN pin.CloudData.doc
                        ELSE pin.LocalData.doc

\* C24: strategy totality: when the timestamp column is missing or
\* unparsable in either image, or an image cannot be decoded, Resolve
\* returns no winning image: it answers with an error or with no image.
C24_MalformedDegrades ==
    (pout # NotResolved /\ ~(WellFormed(pin.LocalData) /\ WellFormed(pin.CloudData))) =>
        \/ pout.err # "nil"
        \/ DOMAIN pout.image = {}

\* C25: run audit trail: every successful Manager.Start adds exactly one
\* run record, with status "running", to sync_history, and once the Manager
\* is idle again no run record is left in status "running".
C25_RunAuditTrail ==
    /\ [][(status # "running" /\ status' = "running") =>
            /\ Cardinality(history' \ history) = 1
            /\ \A h \in history' \ history : h.status = "running"]_vars
    /\ [](status = "idle" => \A h \in history : h.status # "running")

\* C26: the running pipeline follows sync.mode: local_to_cloud reads local
\* and applies to cloud, cloud_to_local reads cloud and applies to local,
\* bidirectional runs one listener and pool pair in each direction.
C26_FollowsMode ==
    (pin \in Modes /\ status = "running") =>
        Directions(pin) =
            CASE pin = "local_to_cloud" -> {<<"local", "cloud">>}
              [] pin = "cloud_to_local" -> {<<"cloud", "local">>}
              [] pin = "bidirectional" -> {<<"local", "cloud">>, <<"cloud", "local">>}

\* C27: a scheduled trigger is a no-op while a run is active: a step of
\* triggerSync taken while the status is "running", also the Start of a
\* trigger that saw another status before a concurrent Start, changes
\* nothing of the Manager, listener, workers or destination; there is never
\* a second listener or pool; a disabled scheduler never gets to Start.
C27_TriggerNoOp ==
    /\ [][(schVars' # schVars /\ status = "running") =>
            /\ UNCHANGED <<status, mu, run, listeners, pools>>
            /\ UNCHANGED <<lsnVars, wrkVars, dstVars, binlog, panicked>>
            /\ lastTrigger' \in {"skipped", "AlreadyRunning"}]_vars
    /\ [](Cardinality(pools) <= 1 /\ Cardinality(listeners) <= 1)
    /\ [](~enabled => (tpc = "wait" /\ lastTrigger = "none"))

C27_Witness ==
    /\ enabled
    /\ status = "running"
    /\ lastTrigger = "AlreadyRunning"
    /\ tpc = "wait"

\* C28: state-store failures are not ignored: once three writes of a
\* position to the state store have failed in a row, the run is failed.
C28_Escalates == storeFailures >= 3 => status = "failed"

\* C29: the position a flush writes for a table is the highest (file,
\* offset) among that table's events in the flushed batch, also when the
\* batch spans a rotation of the binlog file.
C29_HighestPosition ==
    [][\A t \in Tables : store'[t] # store[t] =>
         \E w \in WorkerIds :
            /\ wpc[w] = "update"
            /\ wpc'[w] # "update"
            /\ cur[w] = t
            /\ \E i \in Range(EventsOf(w, t)) :
                  /\ store'[t].file = PosOf(i).file
                  /\ store'[t].pos = PosOf(i).pos
                  /\ \A j \in Range(EventsOf(w, t)) : ~PosLess(PosOf(i), PosOf(j))]_vars

\* a committed group that spans two binlog files is about to have its
\* position written
C29_Witness ==
    \E w \in WorkerIds :
        /\ wpc[w] = "update"
        /\ ~pctx
        /\ Range(EventsOf(w, cur[w])) \subseteq Range(committed)
        /\ \E i, j \in Range(EventsOf(w, cur[w])) : FileOf(i) # FileOf(j)

\* C30: rows_synced is a monotonic counter: every write of a table's state
\* after a committed batch adds the number of rows of that batch to the
\* stored rows_synced, and the stored value never decreases.
C30_RowsCounter ==
    [][\A t \in Tables :
         /\ store'[t].rows >= store[t].rows
         /\ store'[t] # store[t] =>
               \E w \in WorkerIds :
                  /\ wpc[w] = "update"
                  /\ cur[w] = t
                  /\ store'[t].rows = store[t].rows + Len(EventsOf(w, t))]_vars

\* an event's batch has been through a destination transaction
Flushed(i) == i \in Range(committed) \/ i \in rolledBack

\* C31: batching rule: a worker starts a flush only from its select, with a
\* non-empty buffer, when the buffer has reached the row cap, the timer has
\* fired, the queue is closed and empty or the pool is cancelled; and every
\* event put in a buffer is flushed eventually, also if no event follows.
C31_BatchingRule ==
    /\ [][\A w \in WorkerIds : (wpc[w] # "flush" /\ wpc'[w] = "flush" /\ wpc[w] # "update") =>
            /\ wpc[w] = "select"
            /\ batch'[w] # <<>>
            /\ \/ Len(batch'[w]) >= BatchSize
               \/ batch'[w] = batch[w]]_vars
    /\ \A w \in WorkerIds : \A i \in 1..MaxEvents :
          (i \in Range(batch[w])) ~> Flushed(i)

\* C32: on flush a worker partitions its buffer by table and runs exactly
\* one destination transaction per distinct table of the buffer, holding
\* all and only that table's buffered events in the order received.
C32_OneTransactionPerTable ==
    [][\A w \in WorkerIds :
         \* entering processBatch: one group per distinct table
         /\ (wpc[w] = "select" /\ wpc'[w] = "flush") =>
               todo'[w] = {binlog[i] : i \in Range(batch'[w])}
         \* a group leaves the loop only through its own transaction
         /\ (wpc[w] = "flush" /\ (wpc'[w] # wpc[w] \/ todo'[w] # todo[w])) =>
               \E t \in todo[w] :
                  LET group == SelectSeq(batch[w], LAMBDA i : binlog[i] = t)
                  IN /\ \/ committed' = committed \o group /\ rolledBack' = rolledBack
                        \/ committed' = committed /\ rolledBack' = rolledBack \cup Range(group)
                     /\ \/ wpc'[w] = "update" /\ cur'[w] = t /\ todo'[w] = todo[w]
                        \/ todo'[w] = todo[w] \ {t}
         \* processBatch returns when every group has had its transaction
         /\ (wpc[w] \in {"flush", "update"} /\ wpc'[w] \in {"select", "exited"}) =>
               todo'[w] = {}]_vars

\* a worker is flushing a buffer of two tables and one of the two
\* transactions has been run
C32_Witness ==
    \E w \in WorkerIds :
        /\ wpc[w] = "flush"
        /\ Cardinality(TablesOf(batch[w])) = 2
        /\ Cardinality(todo[w]) = 1
        /\ \E i \in Range(batch[w]) : Flushed(i) /\ binlog[i] \notin todo[w]

\* C33: all or nothing per batch: the transaction of a table's batch ends
\* in exactly one of commit and rollback; a commit makes all of the batch's
\* events visible at the destination, a rollback none of them, and nothing
\* committed before is touched.
C33_AllOrNothing ==
    [][(committed' # committed \/ rolledBack' # rolledBack) =>
         /\ IsPrefix(committed, committed')
         /\ rolledBack \subseteq rolledBack'
         /\ \E w \in WorkerIds : \E t \in todo[w] :
               LET G == {i \in Range(batch[w]) : binlog[i] = t}
                   C == {committed'[k] : k \in (Len(committed) + 1)..Len(committed')}
                   R == rolledBack' \ rolledBack
               IN /\ wpc[w] = "flush"
                  /\ Len(committed') - Len(committed) = Cardinality(C)
                  /\ \/ C = G /\ R = {}
                     \/ C = {} /\ R \subseteq G /\ G \subseteq rolledBack']_vars

\* of a buffer of two tables, one table's transaction has been rolled back
\* and the other's is still to run
C33_Witness ==
    \E w \in WorkerIds :
        /\ wpc[w] = "flush"
        /\ Cardinality(todo[w]) = 1
        /\ \E i \in Range(batch[w]) :
              /\ binlog[i] \notin todo[w]
              /\ i \in rolledBack
              /\ i \notin Range(committed)

\* C34: no deadlock: unless the process has died, a Stop that holds the
\* mutex returns, an OnRow at its send and a triggerSync waiting for the
\* mutex get through, and a worker's processBatch returns; a worker begins
\* the state-store write only after its destination transaction has ended,
\* and a state-store write moves nothing but the store and its own worker.
C34_NoDeadlock ==
    /\ (mu # "free") ~> (mu = "free" \/ panicked)
    /\ (inflight # 0) ~> (inflight = 0 \/ panicked)
    /\ (tpc = "start") ~> (tpc = "wait" \/ panicked)
    /\ \A w \in WorkerIds :
          (wpc[w] \in {"flush", "update"}) ~> (wpc[w] \in {"select", "exited"} \/ panicked)
    /\ [][\A w \in WorkerIds :
            /\ (wpc[w] # "update" /\ wpc'[w] = "update") =>
                  (wpc[w] = "flush" /\ committed' # committed /\ store' = store)
            /\ (wpc[w] = "update" /\ wpc'[w] # "update") =>
                  (UNCHANGED <<committed, rolledBack>> /\ UNCHANGED <<mgrVars, lsnVars, schVars>>)]_vars
    /\ [][store' # store =>
            /\ UNCHANGED <<mgrVars, lsnVars, schVars, committed, rolledBack, pctx>>
            /\ \E w \in WorkerIds : wpc[w] = "update" /\ \A v \in WorkerIds \ {w} : wpc'[v] = wpc[v]]_vars

\* Stop waits for the workers while one of them is still in processBatch
\* and a scheduled trigger waits for the mutex
C34_Witness ==
    /\ mu = "stop"
    /\ tpc = "start"
    /\ \E w \in WorkerIds : wpc[w] \in {"flush", "update"}

\* C35: status reflects the pipeline: whenever GetStatus can read it (the
\* mutex is free), status "running" means that the current run's worker
\* pool and listener have both been started, and status "idle" means that
\* no worker goroutine is alive, after a failed Start as after a Stop.
C35_StatusReflectsPipeline ==
    (mu = "free" /\ ~panicked) =>
        /\ status = "running" =>
              /\ run >= 1
              /\ run \in pools
              /\ run \in listeners
              /\ \A w \in WorkerIds : wpc[w] # "none"
        /\ status = "idle" =>
              /\ pools = {}
              /\ listeners = {}
              /\ \A w \in WorkerIds : wpc[w] \in {"none", "exited"}

\* a Stop has returned: the status is idle and every worker has exited
C35_Witness ==
    /\ mu = "free"
    /\ status = "idle"
    /\ \A w \in WorkerIds : wpc[w] = "exited"

\* C36: the Manager is reusable: a Start after a Stop builds a fresh
\* listener, queue, contexts and worker pool and sets the status to
\* "running"; while that later run is running, its queue is open, its
\* contexts are live and its workers are alive, whatever became of the
\* closed queue and the cancelled contexts of the run before.
C36_Reusable ==
    /\ [][(run >= 1 /\ run' = run + 1) =>
            /\ status = "idle" /\ status' = "running"
            /\ queue' = <<>> /\ ~closed' /\ ~lctx' /\ ~pctx'
            /\ run' \in listeners' /\ run' \in pools'
            /\ \A w \in WorkerIds : wpc'[w] = "select" /\ batch'[w] = <<>>]_vars
    /\ []((run >= 2 /\ status = "running" /\ mu = "free") =>
            /\ ~closed /\ ~lctx /\ ~pctx
            /\ ~panicked
            /\ \A w \in WorkerIds : wpc[w] \in {"select", "flush", "update"})

\* C37: the resolved flag is monotonic: a conflict enters the store
\* unresolved and with both images, a resolved conflict is never unresolved
\* again, and a ResolveConflict whose id matches no record changes no
\* conflict (a step changes at most the one record whose id was given).
C37_ResolvedMonotonic ==
    [][/\ \A q \in conflicts' :
             (\A r \in conflicts : r.id # q.id) =>
                 /\ ~q.resolved
                 /\ q.resolution_strategy = "NULL"
                 /\ \E l, c \in SideImages :
                       q.local_data = Marshal(l) /\ q.cloud_data = Marshal(c)
       /\ \A r \in conflicts : \A q \in conflicts' :
             (q.id = r.id /\ r.resolved) => q.resolved
       /\ Cardinality({r \in conflicts : r \notin conflicts'}) <= 1
       /\ \A id \in ConflictIds, strategy \in Strategies, image \in SideImages, now \in Times :
             ((\A r \in conflicts : r.id # id)
                 /\ ResolveConflict(id, strategy, Marshal(image), now)) =>
                     conflicts' = conflicts]_vars

\* a conflict detected at time 1 has been resolved at time 2 while a second
\* conflict is still unresolved
C37_Witness ==
    \E r, q \in conflicts :
        /\ r.resolved /\ r.resolved_at = 2 /\ r.detected_at = 1
        /\ ~q.resolved

====
